---- MODULE Spec2Model ----
(***************************************************************************)
(* Seminar booking single-page application.                                *)
(*  - Spec, SpecMalformed: cloud variant (src/App.jsx), the slot           *)
(*    availability resolution performed by fetchGcalSlots over the events  *)
(*    of the selected day and the booking records of the store.            *)
(*  - SpecApp, SpecGuests, SpecAdmin: cloud variant, several browsers on   *)
(*    one calendar and one bookings collection: selection, submission,     *)
(*    authorization, sync to the calendar, removal.                        *)
(*  - SpecDates, SpecDatesAnswered: cloud variant, one browser that moves *)
(*    between days while several events.list calls are unanswered.         *)
(*  - SpecScript, SpecScriptTimers: script-backend variant                 *)
(*    (src/index.html), the slot fetch with its timeout and the booking    *)
(*    submission with its timer.                                           *)
(*                                                                         *)
(* JavaScript values are modelled as follows.                              *)
(*  - A string that may be undefined is a record [def, val]; val is the    *)
(*    sequence of the tokens of the text, so that String.includes is a     *)
(*    search in that sequence.                                             *)
(*  - A timestamp string that may be undefined is a record [def, d, h]:    *)
(*    day d, hour h of the day (h = 0 for a date-only string).  new Date   *)
(*    turns it into an instant, a number of hours; NaN is the time value   *)
(*    of an Invalid Date.  The browser's time zone is taken to be UTC, so  *)
(*    that the hours of date-time and date-only strings are on one scale.  *)
(***************************************************************************)
EXTENDS Integers, Sequences, FiniteSets, TLC

\* ---------------------------------------------------------------- bounds
MaxEvents == 2      \* events returned for the selected day
MaxTime == 2        \* last hour of the day at which a timed event starts or ends
MaxBookings == 1    \* booking records in the store
MaxInFlight == 1    \* calendar requests awaiting their response
MaxFetches == 2     \* calls of fetchAvailableSlots in a run of the script variant
MaxSlots == 2       \* slots in an answer of the script backend
NumClients == 2     \* browsers running the cloud variant
MaxAdmins == 1      \* browsers whose user authorizes the calendar scope
MaxDocs == 2        \* booking documents added in a run
MaxInserts == 2     \* calendar events inserted in a run
MaxDates == 2       \* days of the calendar a browser moves between
MaxOverlap == 2     \* events.list calls of that browser unanswered at once
MaxPosts == 2       \* booking submissions in a run of the script variant

\* --------------------------------------------------------- program constants
SLOT_KEYWORD == "SLOT_KEYWORD"          \* GOOGLE_CONFIG.SLOT_KEYWORD
CONFIRMED_MARKER == "CONFIRMED_MARKER"  \* the literal searched in ev.description
NoError == "null"                       \* apiError = null
ErrNoPermission == "no calendar permission"
ErrFetchFailed == "Failed to fetch calendar data."
ErrGapiInit == "Google API Init Error"
ErrDatabase == "Database connection failed."

\* hours in a day: a date-only event runs from hour 0 of its day to hour 0
\* of the next one
DayLen == MaxTime + 1
NaN == -1

\* -------------------------------------------------------------- JS values
Undefined == [def |-> FALSE, val |-> <<>>]
Str(s) == [def |-> TRUE, val |-> s]

\* a string in a boolean context: undefined and "" are falsy
Truthy(s) == s.def /\ s.val # <<>>

\* String.prototype.includes
Includes(s, marker) == \E i \in 1..Len(s.val) : s.val[i] = marker

NoDate == [def |-> FALSE, d |-> 0, h |-> 0]
DateStr(d, h) == [def |-> TRUE, d |-> d, h |-> h]

\* a reading that takes the first field only
OrElseFirstOnly(a, b) == a

\* a || b on two optional strings
OrElse(a, b) == IF a.def THEN a ELSE b

\* new Date(string): the time value of the Date
ParseDate(s) == IF s.def THEN s.d * DayLen + s.h ELSE NaN

\* a comparison that lets equal instants through
DateLessOrEqual(a, b) == a # NaN /\ b # NaN /\ a <= b

\* Date < Date: both operands are converted to their time values; every
\* comparison with NaN is false
DateLess(a, b) == a # NaN /\ b # NaN /\ a < b

\* toLocaleTimeString(..., hour and minute): the time of day of the instant
FormatTime(t) == IF t = NaN THEN NaN ELSE t % DayLen

\* ------------------------------------------------- the calendar and the store
\* A calendar event as events.list returns it.  A timed event carries
\* start.dateTime and end.dateTime, an all-day event start.date and end.date.
TimedEvent(id, summary, description, s, e) ==
    [id |-> id, summary |-> summary, description |-> description,
     start |-> [dateTime |-> DateStr(0, s), date |-> NoDate],
     end |-> [dateTime |-> DateStr(0, e), date |-> NoDate]]

AllDayEvent(id, summary, description) ==
    [id |-> id, summary |-> summary, description |-> description,
     start |-> [dateTime |-> NoDate, date |-> DateStr(0, 0)],
     end |-> [dateTime |-> NoDate, date |-> DateStr(1, 0)]]

Titles == {Undefined, Str(<<"meeting">>), Str(<<SLOT_KEYWORD>>)}

Descriptions == {Undefined, Str(<<SLOT_KEYWORD>>), Str(<<CONFIRMED_MARKER>>)}

EventsWithId(id) ==
    {TimedEvent(id, t, d, s, e) :
        t \in Titles, d \in Descriptions,
        s \in 0..MaxTime, e \in 0..MaxTime} \cup
    {AllDayEvent(id, t, d) : t \in Titles, d \in Descriptions}

EventStart(ev) == ParseDate(OrElse(ev.start.dateTime, ev.start.date))

EventEnd(ev) == ParseDate(OrElse(ev.end.dateTime, ev.end.date))

\* the lists events.list can answer with: the events of the day, each with
\* its own id, no event ending before it starts, ordered by start time
\* (singleEvents: true, orderBy: 'startTime')
EventLists ==
    UNION {
        {l \in [1..n -> UNION {EventsWithId(i) : i \in 1..n}] :
            /\ \A i \in 1..n : l[i].id = i /\ EventStart(l[i]) <= EventEnd(l[i])
            /\ \A i \in 1..(n - 1) : EventStart(l[i]) <= EventStart(l[i + 1])}
        : n \in 0..MaxEvents}

\* res.result.items: the list, or undefined when the answer has no items field
ItemsValues == {[def |-> FALSE, val |-> <<>>]} \cup {[def |-> TRUE, val |-> l] : l \in EventLists}

Statuses == {"pending", "synced", "deleted"}

\* the documents of the bookings collection; a booking references a slot by
\* the id of its calendar event
BookingLists ==
    UNION {
        {l \in [1..n -> [id : 1..n, slotId : 1..MaxEvents, status : Statuses]] :
            \A i \in 1..n : l[i].id = i}
        : n \in 0..MaxBookings}

\* -------------------------------------------------------------- the resolver
\* Array.prototype.includes on an array of event objects
ArrayIncludes(arr, x) == \E i \in 1..Len(arr) : arr[i] = x

\* a filter that also looks for the keyword in the description
IsTemplateSlotOrDescription(ev) ==
    \/ Truthy(ev.summary) /\ Includes(ev.summary, SLOT_KEYWORD)
    \/ Truthy(ev.description) /\ Includes(ev.description, SLOT_KEYWORD)

\* the filter predicate of templateSlots
IsTemplateSlot(ev) == Truthy(ev.summary) /\ Includes(ev.summary, SLOT_KEYWORD)

FilterTemplateSlots(events) == SelectSeq(events, IsTemplateSlot)

\* a busy filter written on the title, which loses the events without a title
FilterBusyEventsTitled(events, templates) ==
    SelectSeq(events, LAMBDA ev : Truthy(ev.summary) /\ ~Includes(ev.summary, SLOT_KEYWORD))

FilterBusyEvents(events, templates) ==
    SelectSeq(events, LAMBDA ev : ~ArrayIncludes(templates, ev))

\* an overlap test that lets a slot of no width overlap nothing
OverlapsPositiveWidth(ev, busy) ==
    /\ DateLess(EventStart(ev), EventEnd(ev))
    /\ DateLess(EventStart(ev), EventEnd(busy))
    /\ DateLess(EventStart(busy), EventEnd(ev))

\* an overlap test that only asks whether the busy event starts inside the slot
OverlapsStartInside(ev, busy) ==
    /\ ~DateLess(EventStart(busy), EventStart(ev))
    /\ DateLess(EventStart(busy), EventEnd(ev))

\* sStart < bEnd && sEnd > bStart
Overlaps(ev, busy) ==
    /\ DateLess(EventStart(ev), EventEnd(busy))
    /\ DateLess(EventStart(busy), EventEnd(ev))

HasConflict(ev, busy) == \E i \in 1..Len(busy) : Overlaps(ev, busy[i])

\* a lookup that only counts the records already synced
IsCloudBookedSyncedOnly(ev, bookings) ==
    \E i \in 1..Len(bookings) :
        bookings[i].slotId = ev.id /\ bookings[i].status = "synced"

\* a lookup that forgets the status of the record
IsCloudBookedAnyStatus(ev, bookings) ==
    \E i \in 1..Len(bookings) : bookings[i].slotId = ev.id

IsCloudBooked(ev, bookings) ==
    \E i \in 1..Len(bookings) :
        bookings[i].slotId = ev.id /\ bookings[i].status # "deleted"

\* ev.description && ev.description.includes(...), as a truth value
MarkedConfirmed(ev) == Truthy(ev.description) /\ Includes(ev.description, CONFIRMED_MARKER)

\* a resolution that forgets the marker of the description
ResolveSlotNoMarker(ev, busy, bookings) ==
    [id |-> ev.id,
     start |-> FormatTime(EventStart(ev)),
     end |-> FormatTime(EventEnd(ev)),
     rawStart |-> ev.start.dateTime,
     rawEnd |-> ev.end.dateTime,
     isBooked |-> HasConflict(ev, busy) \/ IsCloudBooked(ev, bookings)]

\* the object the map callback returns; isBooked is kept as its truth value
\* (the slot button is disabled exactly when isBooked is truthy)
ResolveSlot(ev, busy, bookings) ==
    [id |-> ev.id,
     start |-> FormatTime(EventStart(ev)),
     end |-> FormatTime(EventEnd(ev)),
     rawStart |-> ev.start.dateTime,
     rawEnd |-> ev.end.dateTime,
     isBooked |-> HasConflict(ev, busy) \/ IsCloudBooked(ev, bookings) \/ MarkedConfirmed(ev)]

\* a map that hands the slots back in reverse order
MapSlotsReversed(templates, busy, bookings) ==
    [i \in 1..Len(templates) |->
        ResolveSlot(templates[Len(templates) + 1 - i], busy, bookings)]

MapSlots(templates, busy, bookings) ==
    [i \in 1..Len(templates) |-> ResolveSlot(templates[i], busy, bookings)]

\* the items field taken as received, without the fallback to []
ItemsAsReceived(items) == items

\* res.result.items || []: the array the filters run on (undefined would make
\* allEvents.filter throw a TypeError)
ItemsOrEmpty(items) == IF items.def THEN items ELSE [def |-> TRUE, val |-> <<>>]

\* --------------------------------------------------------------------- state
VARIABLES
    calendar,        \* what events.list answers for the selected day
    store,           \* documents of the bookings collection
    isGapiLoaded,    \* React state of App
    apiError,
    isLoading,
    cloudBookings,
    availableSlots,
    requests,        \* calls of fetchGcalSlots suspended at the await, each
                     \* with the cloudBookings its closure captured
    allEvents,       \* locals of the latest call that went through its try block
    templateSlots,
    busyEvents,
    usedBookings,    \* the cloudBookings that call read
    lastResponse     \* "none", or what events.list did for the call that
                     \* finished last: "resolved" or "rejected"

vars == <<calendar, store, isGapiLoaded, apiError, isLoading, cloudBookings,
          availableSlots, requests, allEvents, templateSlots, busyEvents,
          usedBookings, lastResponse>>

\* The variables above are one browser running the fetch cycle of App.jsx.
\* The variables below carry the rest of the system: several browsers
\* sharing one calendar and one bookings collection (src/App.jsx), and the
\* script-backend variant of the page (src/index.html).
VARIABLES
    gcal,            \* events of the selected day in the shared calendar
    docs,            \* documents of the shared bookings collection
    created,         \* number of documents added so far (document ids)
    client,          \* React state of App in each browser
    calls,           \* async functions of each browser suspended at an await
    firstPass,       \* history: inputs and result of the first resolution
    everSynced,      \* history: slot ids of the records that became synced
    script,          \* React state of the script-backend variant
    fetches,         \* its calls of fetchAvailableSlots, with their timers
    posts,           \* its calls of handleBookingSubmit, with their timers
    days,            \* events of each day of the calendar
    records,         \* documents of the bookings collection
    viewer,          \* React state of a browser that moves between days
    lists            \* its events.list calls that are not answered yet

appVars == <<gcal, docs, created, client, calls, firstPass, everSynced>>

scriptVars == <<script, fetches, posts>>

dateVars == <<days, records, viewer, lists>>

\* the browsers of the cloud variant and the script variant are not running
AppIdle ==
    /\ gcal = <<>>
    /\ docs = <<>>
    /\ created = 0
    /\ client = <<>>
    /\ calls = <<>>
    /\ firstPass = <<>>
    /\ everSynced = {}

ScriptIdle ==
    /\ script = <<>>
    /\ fetches = <<>>
    /\ posts = <<>>

DatesIdle ==
    /\ days = <<>>
    /\ records = <<>>
    /\ viewer = <<>>
    /\ lists = <<>>

Init ==
    /\ calendar \in ItemsValues
    /\ store \in BookingLists
    /\ isGapiLoaded = FALSE
    /\ apiError = NoError
    /\ isLoading = FALSE
    /\ cloudBookings = <<>>
    /\ availableSlots = <<>>
    /\ requests = <<>>
    /\ allEvents = <<>>
    /\ templateSlots = <<>>
    /\ busyEvents = <<>>
    /\ usedBookings = <<>>
    /\ lastResponse = "none"
    /\ AppIdle
    /\ ScriptIdle
    /\ DatesIdle

\* gapi.client.init resolved: setIsGapiLoaded(true)
GapiLoaded ==
    /\ ~isGapiLoaded
    /\ isGapiLoaded' = TRUE
    /\ UNCHANGED <<calendar, store, apiError, isLoading, cloudBookings,
                   availableSlots, requests, allEvents, templateSlots,
                   busyEvents, usedBookings, lastResponse>>
    /\ UNCHANGED <<appVars, scriptVars, dateVars>>

\* loading or initialising the Google API client failed (script not loaded,
\* API key missing, gapi.client.init rejected): setApiError(message)
GapiFailed ==
    /\ ~isGapiLoaded
    /\ apiError # ErrGapiInit
    /\ apiError' = ErrGapiInit
    /\ UNCHANGED <<calendar, store, isGapiLoaded, isLoading, cloudBookings,
                   availableSlots, requests, allEvents, templateSlots,
                   busyEvents, usedBookings, lastResponse>>
    /\ UNCHANGED <<appVars, scriptVars, dateVars>>

\* the onSnapshot listener delivers the collection: setCloudBookings(data)
OnSnapshot ==
    /\ cloudBookings # store
    /\ cloudBookings' = store
    /\ UNCHANGED <<calendar, store, isGapiLoaded, apiError, isLoading,
                   availableSlots, requests, allEvents, templateSlots,
                   busyEvents, usedBookings, lastResponse>>
    /\ UNCHANGED <<appVars, scriptVars, dateVars>>

\* the onSnapshot listener reports an error: setApiError(message)
OnSnapshotError ==
    /\ apiError # ErrDatabase
    /\ apiError' = ErrDatabase
    /\ UNCHANGED <<calendar, store, isGapiLoaded, isLoading, cloudBookings,
                   availableSlots, requests, allEvents, templateSlots,
                   busyEvents, usedBookings, lastResponse>>
    /\ UNCHANGED <<appVars, scriptVars, dateVars>>

\* a call whose guard forgets apiError
FetchStartIgnoringError ==
    /\ isGapiLoaded
    /\ Len(requests) < MaxInFlight
    /\ isLoading' = TRUE
    /\ apiError' = NoError
    /\ requests' = Append(requests, [bookings |-> cloudBookings])
    /\ UNCHANGED <<calendar, store, isGapiLoaded, cloudBookings,
                   availableSlots, allEvents, templateSlots, busyEvents,
                   usedBookings, lastResponse>>
    /\ UNCHANGED <<appVars, scriptVars, dateVars>>

\* fetchGcalSlots up to its await, called by the effect or by the Refresh
\* button; when the guard fails the call returns without any effect
FetchStart ==
    /\ isGapiLoaded /\ apiError = NoError
    /\ Len(requests) < MaxInFlight
    /\ isLoading' = TRUE
    /\ apiError' = NoError
    /\ requests' = Append(requests, [bookings |-> cloudBookings])
    /\ UNCHANGED <<calendar, store, isGapiLoaded, cloudBookings,
                   availableSlots, allEvents, templateSlots, busyEvents,
                   usedBookings, lastResponse>>
    /\ UNCHANGED <<appVars, scriptVars, dateVars>>

\* the request of call k leaves the list of suspended calls
Settle(k) == SubSeq(requests, 1, k - 1) \o SubSeq(requests, k + 1, Len(requests))

\* events.list resolved: the rest of the try block, then the finally block;
\* a TypeError raised in the try block goes through the catch block
FetchResolved ==
    \E k \in 1..Len(requests) :
        LET req == requests[k]
            all == ItemsOrEmpty(calendar)
            templates == FilterTemplateSlots(all.val)
            busy == FilterBusyEvents(all.val, templates)
        IN  /\ IF all.def
                 THEN /\ allEvents' = all.val
                      /\ templateSlots' = templates
                      /\ busyEvents' = busy
                      /\ usedBookings' = req.bookings
                      /\ availableSlots' = MapSlots(templates, busy, req.bookings)
                      /\ UNCHANGED apiError
                 ELSE /\ apiError' = ErrFetchFailed
                      /\ UNCHANGED <<availableSlots, allEvents, templateSlots,
                                     busyEvents, usedBookings>>
            /\ isLoading' = FALSE
            /\ lastResponse' = "resolved"
            /\ requests' = Settle(k)
            /\ UNCHANGED <<calendar, store, isGapiLoaded, cloudBookings>>
            /\ UNCHANGED <<appVars, scriptVars, dateVars>>

\* events.list rejected with an HTTP status: the catch block, then finally
FetchRejected ==
    \E k \in 1..Len(requests), status \in {401, 403, 500} :
        /\ apiError' = IF status = 401 \/ status = 403 THEN ErrNoPermission ELSE ErrFetchFailed
        /\ isLoading' = FALSE
        /\ lastResponse' = "rejected"
        /\ requests' = Settle(k)
        /\ UNCHANGED <<calendar, store, isGapiLoaded, cloudBookings, availableSlots,
                       allEvents, templateSlots, busyEvents, usedBookings>>
        /\ UNCHANGED <<appVars, scriptVars, dateVars>>

Next ==
    \/ GapiLoaded
    \/ GapiFailed
    \/ OnSnapshot
    \/ OnSnapshotError
    \/ FetchStart
    \/ FetchResolved
    \/ FetchRejected

Spec == Init /\ [][Next]_vars

\* ------------------------------------------------- events without a timestamp
\* An event whose start or end carries neither dateTime nor date, or carries
\* text that is no timestamp: new Date(...) of it is an Invalid Date either
\* way, so both are modelled by the missing field.
MalformedEvent(id, summary, st, en) ==
    [id |-> id, summary |-> summary, description |-> Undefined,
     start |-> [dateTime |-> st, date |-> NoDate],
     end |-> [dateTime |-> en, date |-> NoDate]]

MalformedEventsWithId(id) ==
    {MalformedEvent(id, t, st, en) :
        t \in Titles,
        st \in {NoDate} \cup {DateStr(0, h) : h \in 0..MaxTime},
        en \in {NoDate} \cup {DateStr(0, h) : h \in 0..MaxTime}}
    \ UNION {EventsWithId(id)}

WellFormed(ev) == EventStart(ev) # NaN /\ EventEnd(ev) # NaN

\* the lists of the day that hold at least one such event; the events with
\* both timestamps are as in EventLists
MalformedLists ==
    UNION {
        {l \in [1..n -> UNION {EventsWithId(i) \cup MalformedEventsWithId(i) : i \in 1..n}] :
            /\ \A i \in 1..n : l[i].id = i
            /\ \A i \in 1..n : WellFormed(l[i]) => EventStart(l[i]) <= EventEnd(l[i])
            /\ \A i \in 1..(n - 1) :
                   WellFormed(l[i]) /\ WellFormed(l[i + 1])
                       => EventStart(l[i]) <= EventStart(l[i + 1])
            /\ \E i \in 1..n : ~WellFormed(l[i])}
        : n \in 1..MaxEvents}

InitMalformed ==
    /\ calendar \in {[def |-> TRUE, val |-> l] : l \in MalformedLists}
    /\ store \in BookingLists
    /\ isGapiLoaded = FALSE
    /\ apiError = NoError
    /\ isLoading = FALSE
    /\ cloudBookings = <<>>
    /\ availableSlots = <<>>
    /\ requests = <<>>
    /\ allEvents = <<>>
    /\ templateSlots = <<>>
    /\ busyEvents = <<>>
    /\ usedBookings = <<>>
    /\ lastResponse = "none"
    /\ AppIdle
    /\ ScriptIdle
    /\ DatesIdle

SpecMalformed == InitMalformed /\ [][Next]_vars

\* ------------------------------ cloud variant: several browsers, one store
\* Each browser runs App of src/App.jsx; all read the same calendar and the
\* same bookings collection.
ErrSync == "Sync failed. Check permissions."

Clients == 1..NumClients

\* formData.name as typed by the user of browser c
NameOf(c) == ToString(c)

\* selectedSlot = null
NullSlot ==
    [id |-> 0, start |-> NaN, end |-> NaN, rawStart |-> NoDate, rawEnd |-> NoDate,
     isBooked |-> FALSE]

\* the calendar of the selected day before any booking: one template slot,
\* of positive width, of no width, or all-day
AppCalendars ==
    {<<TimedEvent(1, Str(<<SLOT_KEYWORD>>), Undefined, 0, 1)>>,
     <<TimedEvent(1, Str(<<SLOT_KEYWORD>>), Undefined, 1, 1)>>,
     <<AllDayEvent(1, Str(<<SLOT_KEYWORD>>), Undefined)>>}

InitApp ==
    /\ gcal \in AppCalendars
    /\ docs = <<>>
    /\ created = 0
    /\ client = [c \in Clients |->
                    [user |-> FALSE, isGapiLoaded |-> FALSE, isGcalAuthorized |-> FALSE,
                     apiError |-> NoError, isLoading |-> FALSE,
                     cloudBookings |-> <<>>, availableSlots |-> <<>>,
                     selectedSlot |-> NullSlot, isBookingModalOpen |-> FALSE,
                     bookingStatus |-> "idle"]]
    /\ calls = [c \in Clients |->
                   [requests |-> <<>>, submits |-> <<>>, syncs |-> <<>>, auths |-> <<>>]]
    /\ firstPass = <<>>
    /\ everSynced = {}
    /\ calendar = [def |-> FALSE, val |-> <<>>]
    /\ store = <<>>
    /\ isGapiLoaded = FALSE
    /\ apiError = NoError
    /\ isLoading = FALSE
    /\ cloudBookings = <<>>
    /\ availableSlots = <<>>
    /\ requests = <<>>
    /\ allEvents = <<>>
    /\ templateSlots = <<>>
    /\ busyEvents = <<>>
    /\ usedBookings = <<>>
    /\ lastResponse = "none"
    /\ ScriptIdle
    /\ DatesIdle

\* onAuthStateChanged delivers the signed-in user: setUser
SignedIn(c) ==
    /\ ~client[c].user
    /\ client' = [client EXCEPT ![c].user = TRUE]
    /\ UNCHANGED <<gcal, docs, created, calls, firstPass, everSynced, vars, scriptVars, dateVars>>

\* a list of suspended calls without its k-th call
Without(seq, k) == SubSeq(seq, 1, k - 1) \o SubSeq(seq, k + 1, Len(seq))

\* fetchGcalSlots in a browser with React state st and suspended calls cl,
\* called with a closure that holds loaded, error and bookings: the state
\* and the calls after the part of the function before its await
FetchGcalSlots(st, cl, loaded, error, bookings) ==
    IF loaded /\ error = NoError
    THEN [st |-> [st EXCEPT !.isLoading = TRUE, !.apiError = NoError],
          cl |-> [cl EXCEPT !.requests = Append(@, [bookings |-> bookings])]]
    ELSE [st |-> st, cl |-> cl]

\* the effect on [isGapiLoaded, selectedDate, cloudBookings, apiError]: it
\* runs after the render that changed one of them and calls the
\* fetchGcalSlots of that render
RunEffect(st, cl) == FetchGcalSlots(st, cl, st.isGapiLoaded, st.apiError, st.cloudBookings)

\* the browser has room for the request the effect would send
EffectInBounds(st, cl) ==
    (st.isGapiLoaded /\ st.apiError = NoError) => Len(cl.requests) < MaxInFlight

\* gapi.client.init resolved: setIsGapiLoaded(true), then the effect
AppGapiLoaded(c) ==
    LET st == [client[c] EXCEPT !.isGapiLoaded = TRUE]
        after == RunEffect(st, calls[c])
    IN  /\ ~client[c].isGapiLoaded
        /\ EffectInBounds(st, calls[c])
        /\ client' = [client EXCEPT ![c] = after.st]
        /\ calls' = [calls EXCEPT ![c] = after.cl]
        /\ UNCHANGED <<gcal, docs, created, firstPass, everSynced, vars, scriptVars, dateVars>>

\* the onSnapshot listener, registered once the user is known, delivers the
\* collection: setCloudBookings(data), then the effect
AppOnSnapshot(c) ==
    LET st == [client[c] EXCEPT !.cloudBookings = docs]
        after == RunEffect(st, calls[c])
    IN  /\ client[c].user
        /\ client[c].cloudBookings # docs
        /\ EffectInBounds(st, calls[c])
        /\ client' = [client EXCEPT ![c] = after.st]
        /\ calls' = [calls EXCEPT ![c] = after.cl]
        /\ UNCHANGED <<gcal, docs, created, firstPass, everSynced, vars, scriptVars, dateVars>>

\* the Refresh button of the admin view: fetchGcalSlots
Refresh(c) ==
    LET after == RunEffect(client[c], calls[c])
    IN  /\ c <= MaxAdmins
        /\ client[c].isGapiLoaded /\ client[c].apiError = NoError
        /\ Len(calls[c].requests) < MaxInFlight
        /\ client' = [client EXCEPT ![c] = after.st]
        /\ calls' = [calls EXCEPT ![c] = after.cl]
        /\ UNCHANGED <<gcal, docs, created, firstPass, everSynced, vars, scriptVars, dateVars>>

\* a resolution that keeps a slot booked once it has been shown booked
AppFetchResolvedSticky(c) ==
    \E k \in 1..Len(calls[c].requests) :
        /\ LET req == calls[c].requests[k]
               templates == FilterTemplateSlots(gcal)
               busy == FilterBusyEvents(gcal, templates)
               fresh == MapSlots(templates, busy, req.bookings)
               slots == [i \in 1..Len(fresh) |->
                            [fresh[i] EXCEPT !.isBooked =
                                @ \/ \E j \in 1..Len(client[c].availableSlots) :
                                        /\ client[c].availableSlots[j].id = fresh[i].id
                                        /\ client[c].availableSlots[j].isBooked]]
           IN  /\ client' = [client EXCEPT ![c].availableSlots = slots, ![c].isLoading = FALSE]
               /\ calls' = [calls EXCEPT ![c].requests = Without(@, k)]
               /\ firstPass' =
                      IF firstPass = <<>>
                      THEN <<[events |-> gcal, bookings |-> req.bookings, slots |-> slots]>>
                      ELSE firstPass
        /\ UNCHANGED <<gcal, docs, created, everSynced, vars, scriptVars, dateVars>>

\* events.list resolved with the events of the day: the rest of the try
\* block, then the finally block
AppFetchResolved(c) ==
    \E k \in 1..Len(calls[c].requests) :
        /\ LET req == calls[c].requests[k]
               templates == FilterTemplateSlots(gcal)
               busy == FilterBusyEvents(gcal, templates)
               slots == MapSlots(templates, busy, req.bookings)
           IN  /\ client' = [client EXCEPT ![c].availableSlots = slots, ![c].isLoading = FALSE]
               /\ calls' = [calls EXCEPT ![c].requests = Without(@, k)]
               /\ firstPass' =
                      IF firstPass = <<>>
                      THEN <<[events |-> gcal, bookings |-> req.bookings, slots |-> slots]>>
                      ELSE firstPass
        /\ UNCHANGED <<gcal, docs, created, everSynced, vars, scriptVars, dateVars>>

\* events.list rejected: the catch block, then the finally block
AppFetchRejected(c) ==
    \E k \in 1..Len(calls[c].requests), status \in {401, 500} :
        /\ client' = [client EXCEPT
                         ![c].apiError = IF status = 401 THEN ErrNoPermission ELSE ErrFetchFailed,
                         ![c].isLoading = FALSE]
        /\ calls' = [calls EXCEPT ![c].requests = Without(@, k)]
        /\ UNCHANGED <<gcal, docs, created, firstPass, everSynced, vars, scriptVars, dateVars>>

\* a click on the day of the calendar that is selected already:
\* setSelectedDate(new Date(...)) stores a new Date object, so the effect
\* runs and fetches the day again (the page is covered while the modal is
\* open)
SelectDate(c) ==
    LET after == RunEffect(client[c], calls[c])
    IN  /\ ~client[c].isBookingModalOpen
        /\ client[c].isGapiLoaded /\ client[c].apiError = NoError
        /\ Len(calls[c].requests) < MaxInFlight
        /\ client' = [client EXCEPT ![c] = after.st]
        /\ calls' = [calls EXCEPT ![c] = after.cl]
        /\ UNCHANGED <<gcal, docs, created, firstPass, everSynced, vars, scriptVars, dateVars>>

\* a slot button that is never disabled
SelectSlotAny(c) ==
    \E i \in 1..Len(client[c].availableSlots) :
        /\ ~client[c].isLoading
        /\ ~client[c].isBookingModalOpen
        /\ client' = [client EXCEPT ![c].selectedSlot = client[c].availableSlots[i],
                                    ![c].isBookingModalOpen = TRUE]
        /\ UNCHANGED <<gcal, docs, created, calls, firstPass, everSynced, vars, scriptVars, dateVars>>

\* a click on the button of slot i; the button is rendered when the list is
\* not loading and no modal covers it, and is disabled when s.isBooked
SelectSlot(c) ==
    \E i \in 1..Len(client[c].availableSlots) :
        /\ ~client[c].isLoading
        /\ ~client[c].isBookingModalOpen
        /\ ~client[c].availableSlots[i].isBooked
        /\ client' = [client EXCEPT ![c].selectedSlot = client[c].availableSlots[i],
                                    ![c].isBookingModalOpen = TRUE]
        /\ UNCHANGED <<gcal, docs, created, calls, firstPass, everSynced, vars, scriptVars, dateVars>>

\* the x button of the modal
CloseModal(c) ==
    /\ client[c].isBookingModalOpen
    /\ client' = [client EXCEPT ![c].isBookingModalOpen = FALSE]
    /\ UNCHANGED <<gcal, docs, created, calls, firstPass, everSynced, vars, scriptVars, dateVars>>

\* the Close button of the Accepted screen
CloseAccepted(c) ==
    /\ client[c].isBookingModalOpen
    /\ client[c].bookingStatus = "success"
    /\ client' = [client EXCEPT ![c].isBookingModalOpen = FALSE,
                                ![c].bookingStatus = "idle"]
    /\ UNCHANGED <<gcal, docs, created, calls, firstPass, everSynced, vars, scriptVars, dateVars>>

\* handleBookingSubmit up to its await; the form is rendered in the open
\* modal unless bookingStatus is 'success', its button is disabled while
\* bookingStatus is 'loading'
HandleBookingSubmit(c) ==
    /\ client[c].isBookingModalOpen
    /\ client[c].bookingStatus \notin {"success", "loading"}
    /\ client[c].user
    /\ calls[c].submits = <<>>
    /\ client' = [client EXCEPT ![c].bookingStatus = "loading"]
    /\ calls' = [calls EXCEPT ![c].submits =
                     <<[name |-> NameOf(c),
                        slotId |-> client[c].selectedSlot.id,
                        rawStart |-> client[c].selectedSlot.rawStart,
                        rawEnd |-> client[c].selectedSlot.rawEnd,
                        status |-> "pending"]>>]
    /\ UNCHANGED <<gcal, docs, created, firstPass, everSynced, vars, scriptVars, dateVars>>

\* a store that refuses a second live record for a slot
AddDocUnique(collection, id, data) ==
    IF \E i \in 1..Len(collection) :
           collection[i].slotId = data.slotId /\ collection[i].status # "deleted"
    THEN collection
    ELSE Append(collection,
                [id |-> id, name |-> data.name, slotId |-> data.slotId,
                 rawStart |-> data.rawStart, rawEnd |-> data.rawEnd,
                 status |-> data.status])

\* addDoc(collection, data): the document is added under a fresh id
AddDoc(collection, id, data) ==
    Append(collection,
           [id |-> id, name |-> data.name, slotId |-> data.slotId,
            rawStart |-> data.rawStart, rawEnd |-> data.rawEnd,
            status |-> data.status])

\* addDoc resolved: setBookingStatus('success')
SubmitAccepted(c) ==
    /\ calls[c].submits # <<>>
    /\ created < MaxDocs
    /\ docs' = AddDoc(docs, created + 1, Head(calls[c].submits))
    /\ created' = created + 1
    /\ client' = [client EXCEPT ![c].bookingStatus = "success"]
    /\ calls' = [calls EXCEPT ![c].submits = <<>>]
    /\ UNCHANGED <<gcal, firstPass, everSynced, vars, scriptVars, dateVars>>

\* addDoc rejected: setBookingStatus('error')
SubmitRejected(c) ==
    /\ calls[c].submits # <<>>
    /\ client' = [client EXCEPT ![c].bookingStatus = "error"]
    /\ calls' = [calls EXCEPT ![c].submits = <<>>]
    /\ UNCHANGED <<gcal, docs, created, firstPass, everSynced, vars, scriptVars, dateVars>>

\* handleGcalAuth, from the Authorize button of the admin view (shown while
\* not authorized) or of the error banner (shown for the permission error):
\* the token client is created with a callback that holds the
\* fetchGcalSlots of this render
HandleGcalAuth(c) ==
    /\ c <= MaxAdmins
    /\ ~client[c].isGcalAuthorized \/ client[c].apiError = ErrNoPermission
    /\ calls[c].auths = <<>>
    /\ calls' = [calls EXCEPT ![c].auths =
                     <<[isGapiLoaded |-> client[c].isGapiLoaded,
                        apiError |-> client[c].apiError,
                        cloudBookings |-> client[c].cloudBookings]>>]
    /\ UNCHANGED <<gcal, docs, created, client, firstPass, everSynced, vars, scriptVars, dateVars>>

\* the callback receives an access token: setIsGcalAuthorized(true),
\* setApiError(null), fetchGcalSlots() of the render that created it; then
\* the effect, when apiError has changed
TokenGranted(c) ==
    LET held == Head(calls[c].auths)
        st == [client[c] EXCEPT !.isGcalAuthorized = TRUE, !.apiError = NoError]
        called == FetchGcalSlots(st, [calls[c] EXCEPT !.auths = <<>>],
                                 held.isGapiLoaded, held.apiError, held.cloudBookings)
        after == IF client[c].apiError # NoError
                 THEN RunEffect(called.st, called.cl)
                 ELSE called
    IN  /\ calls[c].auths # <<>>
        /\ Len(after.cl.requests) <= MaxInFlight
        /\ client' = [client EXCEPT ![c] = after.st]
        /\ calls' = [calls EXCEPT ![c] = after.cl]
        /\ UNCHANGED <<gcal, docs, created, firstPass, everSynced, vars, scriptVars, dateVars>>

\* Sync Now on a booking listed as pending, by an authorized user:
\* syncToGoogle(booking) up to its first await
SyncToGoogle(c) ==
    \E i \in 1..Len(client[c].cloudBookings) :
        /\ client[c].isGcalAuthorized
        /\ client[c].cloudBookings[i].status = "pending"
        /\ calls[c].syncs = <<>>
        /\ calls' = [calls EXCEPT ![c].syncs =
                         <<[booking |-> client[c].cloudBookings[i], awaits |-> "insert"]>>]
        /\ UNCHANGED <<gcal, docs, created, client, firstPass, everSynced, vars, scriptVars, dateVars>>

\* an event that ends at the start of the booking
ConfirmedInstant(id, booking) ==
    [id |-> id,
     summary |-> Str(<<"confirmed", booking.name>>),
     description |-> Str(<<booking.name, CONFIRMED_MARKER>>),
     start |-> [dateTime |-> booking.rawStart, date |-> NoDate],
     end |-> [dateTime |-> booking.rawStart, date |-> NoDate]]

\* the event syncToGoogle asks events.insert to create
ConfirmedEvent(id, booking) ==
    [id |-> id,
     summary |-> Str(<<"confirmed", booking.name>>),
     description |-> Str(<<booking.name, CONFIRMED_MARKER>>),
     start |-> [dateTime |-> booking.rawStart, date |-> NoDate],
     end |-> [dateTime |-> booking.rawEnd, date |-> NoDate]]

\* an insert that marks the description of the template slot instead
PatchTemplate(events, ev) ==
    [i \in 1..Len(events) |->
        IF EventStart(events[i]) = EventStart(ev) /\ IsTemplateSlot(events[i])
        THEN [events[i] EXCEPT !.description = Str(<<CONFIRMED_MARKER>>)]
        ELSE events[i]]

\* the calendar after events.insert: the events of the day stay ordered by
\* start time
InsertEvent(events, ev) ==
    LET before == SelectSeq(events, LAMBDA x : EventStart(x) <= EventStart(ev))
        after == SelectSeq(events, LAMBDA x : EventStart(x) > EventStart(ev))
    IN  before \o <<ev>> \o after

\* events.insert resolved (the calendar accepts an event that has both
\* start.dateTime and end.dateTime): syncToGoogle goes on to updateDoc
InsertAcknowledged(c) ==
    /\ calls[c].syncs # <<>>
    /\ LET call == Head(calls[c].syncs)
       IN  /\ call.awaits = "insert"
           /\ call.booking.rawStart.def /\ call.booking.rawEnd.def
           /\ Len(gcal) < MaxInserts + 1
           /\ gcal' = InsertEvent(gcal, ConfirmedEvent(Len(gcal) + 1, call.booking))
           /\ calls' = [calls EXCEPT ![c].syncs = <<[call EXCEPT !.awaits = "update"]>>]
    /\ UNCHANGED <<docs, created, client, firstPass, everSynced, vars, scriptVars, dateVars>>

\* a catch block that marks the record synced all the same
InsertRejectedMarksSynced(c) ==
    /\ calls[c].syncs # <<>>
    /\ Head(calls[c].syncs).awaits = "insert"
    /\ client' = [client EXCEPT ![c].apiError = ErrSync]
    /\ calls' = [calls EXCEPT ![c].syncs = <<>>]
    /\ docs' = [i \in 1..Len(docs) |->
                   IF docs[i].id = Head(calls[c].syncs).booking.id
                   THEN [docs[i] EXCEPT !.status = "synced"]
                   ELSE docs[i]]
    /\ UNCHANGED <<gcal, created, firstPass, everSynced, vars, scriptVars, dateVars>>

\* events.insert rejected: the catch block
InsertRejected(c) ==
    /\ calls[c].syncs # <<>>
    /\ Head(calls[c].syncs).awaits = "insert"
    /\ client' = [client EXCEPT ![c].apiError = ErrSync]
    /\ calls' = [calls EXCEPT ![c].syncs = <<>>]
    /\ UNCHANGED <<gcal, docs, created, firstPass, everSynced, vars, scriptVars, dateVars>>

\* an update that flips the status of a record already synced
UpdateDocToggle(collection, id, status) ==
    [i \in 1..Len(collection) |->
        IF collection[i].id = id
        THEN [collection[i] EXCEPT !.status = IF @ = status THEN "pending" ELSE status]
        ELSE collection[i]]

\* updateDoc(doc, {status}): the status field of the document is replaced
UpdateDoc(collection, id, status) ==
    [i \in 1..Len(collection) |->
        IF collection[i].id = id
        THEN [collection[i] EXCEPT !.status = status]
        ELSE collection[i]]

\* updateDoc resolved (the document exists): the end of syncToGoogle
UpdateAcknowledged(c) ==
    /\ calls[c].syncs # <<>>
    /\ LET call == Head(calls[c].syncs)
       IN  /\ call.awaits = "update"
           /\ \E i \in 1..Len(docs) : docs[i].id = call.booking.id
           /\ docs' = UpdateDoc(docs, call.booking.id, "synced")
           /\ everSynced' = everSynced \cup {call.booking.slotId}
    /\ calls' = [calls EXCEPT ![c].syncs = <<>>]
    /\ UNCHANGED <<gcal, created, client, firstPass, vars, scriptVars, dateVars>>

\* updateDoc rejected (the document is gone, or the write failed): the
\* catch block
UpdateRejected(c) ==
    /\ calls[c].syncs # <<>>
    /\ Head(calls[c].syncs).awaits = "update"
    /\ client' = [client EXCEPT ![c].apiError = ErrSync]
    /\ calls' = [calls EXCEPT ![c].syncs = <<>>]
    /\ UNCHANGED <<gcal, docs, created, firstPass, everSynced, vars, scriptVars, dateVars>>

\* the delete button of a listed booking, shown to an authorized user:
\* deleteDoc(doc)
DeleteDoc(c) ==
    \E i \in 1..Len(client[c].cloudBookings) :
        /\ client[c].isGcalAuthorized
        /\ docs' = SelectSeq(docs, LAMBDA d : d.id # client[c].cloudBookings[i].id)
        /\ docs' # docs
        /\ UNCHANGED <<gcal, created, client, calls, firstPass, everSynced, vars, scriptVars, dateVars>>

\* what the user of browser c can do in the guest view, and what the
\* environment can answer to it
GuestStep(c) ==
    \/ SignedIn(c)
    \/ AppGapiLoaded(c)
    \/ AppOnSnapshot(c)
    \/ AppFetchResolved(c)
    \/ AppFetchRejected(c)
    \/ SelectDate(c)
    \/ SelectSlot(c)
    \/ CloseModal(c)
    \/ CloseAccepted(c)
    \/ HandleBookingSubmit(c)
    \/ SubmitAccepted(c)
    \/ SubmitRejected(c)

\* the same for the admin view
AdminStep(c) ==
    \/ Refresh(c)
    \/ HandleGcalAuth(c)
    \/ TokenGranted(c)
    \/ SyncToGoogle(c)
    \/ InsertAcknowledged(c)
    \/ InsertRejected(c)
    \/ UpdateAcknowledged(c)
    \/ UpdateRejected(c)
    \/ DeleteDoc(c)

NextApp == \E c \in Clients : GuestStep(c) \/ AdminStep(c)

SpecApp == InitApp /\ [][NextApp]_<<vars, appVars, scriptVars, dateVars>>

\* the runs in which nobody opens the admin view: requesters only
NextGuests == \E c \in Clients : GuestStep(c)

SpecGuests == InitApp /\ [][NextGuests]_<<vars, appVars, scriptVars, dateVars>>

\* the runs in which the administrator's browser is the only one in use, for
\* requests and for their administration
NextAdmin == \E c \in 1..MaxAdmins : GuestStep(c) \/ AdminStep(c)

SpecAdmin == InitApp /\ [][NextAdmin]_<<vars, appVars, scriptVars, dateVars>>

\* ------------------------------------- script variant: fetchAvailableSlots
\* src/index.html: the page that reads its slots from a script backend.
TimeoutMessage == "timeout"             \* the message set for an AbortError
ErrHttp == "server error"               \* thrown when response.ok is false
ErrFormat == "not an array"             \* thrown when the body is no array
ErrNetwork == "Failed to fetch"         \* err.message of a rejected fetch
ErrManualUrl == "URL must start with https"
NoUrl == ""
HttpsUrl == "https://script"
NoSlot == 0                             \* selectedSlot is null
MsgBooked == "booked"                   \* result.message of an accepted booking
ErrSend == "send failed"                \* thrown when the POST response is not ok
ErrRefused == "refused"                 \* result.message of a refused booking
ErrBody == "no JSON"                    \* err.message when response.json() rejects

\* the bodies the backend can answer with: an array of slots, or JSON that is
\* no array
SlotLists ==
    UNION {
        {l \in [1..n -> [id : 1..n, start : 0..1]] : \A i \in 1..n : l[i].id = i}
        : n \in 0..MaxSlots}

Bodies == {[array |-> FALSE, val |-> <<>>]} \cup {[array |-> TRUE, val |-> l] : l \in SlotLists}

\* data.sort((a, b) => new Date(a.start) - new Date(b.start)): a stable sort
RECURSIVE SortByStart(_)
SortByStart(data) ==
    IF Len(data) <= 1 THEN data
    ELSE LET rest == SortByStart(Tail(data))
             x == Head(data)
             before == SelectSeq(rest, LAMBDA y : y.start < x.start)
             after == SelectSeq(rest, LAMBDA y : y.start >= x.start)
         IN  before \o <<x>> \o after

InitScript ==
    /\ script = [gasUrl |-> NoUrl, slots |-> <<>>, isLoading |-> FALSE,
                 statusMessage |-> "", debugInfo |-> "null",
                 selectedSlot |-> NoSlot, formFilled |-> FALSE,
                 bookingStatus |-> "idle"]
    /\ fetches = <<>>
    /\ posts = <<>>
    /\ calendar = [def |-> FALSE, val |-> <<>>]
    /\ store = <<>>
    /\ isGapiLoaded = FALSE
    /\ apiError = NoError
    /\ isLoading = FALSE
    /\ cloudBookings = <<>>
    /\ availableSlots = <<>>
    /\ requests = <<>>
    /\ allEvents = <<>>
    /\ templateSlots = <<>>
    /\ busyEvents = <<>>
    /\ usedBookings = <<>>
    /\ lastResponse = "none"
    /\ AppIdle
    /\ DatesIdle

\* fetchAvailableSlots up to its await (the URL starts with https): the
\* timer is set and the request sent
StartFetch ==
    /\ Len(fetches) < MaxFetches
    /\ fetches' = Append(fetches, [phase |-> "fetch", timer |-> "armed"])

\* the effect on gasUrl, the refresh button, the timer of a successful
\* booking: fetchAvailableSlots()
FetchAvailableSlots ==
    /\ script.gasUrl = HttpsUrl
    /\ StartFetch
    /\ script' = [script EXCEPT !.isLoading = TRUE, !.statusMessage = "",
                                !.debugInfo = "null"]
    /\ UNCHANGED <<posts, vars, appVars, dateVars>>

\* handleManualUrlSubmit with a URL that starts with https: setGasUrl, then
\* fetchAvailableSlots(manualUrl)
ManualUrlSubmit ==
    /\ StartFetch
    /\ script' = [script EXCEPT !.gasUrl = HttpsUrl, !.isLoading = TRUE,
                                !.statusMessage = "", !.debugInfo = "null"]
    /\ UNCHANGED <<posts, vars, appVars, dateVars>>

\* handleManualUrlSubmit with any other URL
ManualUrlRefused ==
    /\ script.statusMessage # ErrManualUrl
    /\ script' = [script EXCEPT !.statusMessage = ErrManualUrl]
    /\ UNCHANGED <<fetches, posts, vars, appVars, dateVars>>

\* the reset link: setGasUrl("")
ResetUrl ==
    /\ script.gasUrl # NoUrl
    /\ script' = [script EXCEPT !.gasUrl = NoUrl]
    /\ UNCHANGED <<fetches, posts, vars, appVars, dateVars>>

\* a timer that stays set when the response has arrived
KeepTimeout(timer) == timer

\* clearTimeout(timeoutId)
ClearTimeout(timer) == IF timer = "armed" THEN "cleared" ELSE timer

\* fetch resolved with a response: clearTimeout; a response that is not ok
\* is thrown to the catch block, an ok one is read with response.json()
ResponseArrives ==
    \E k \in 1..Len(fetches), ok \in BOOLEAN :
        /\ fetches[k].phase = "fetch"
        /\ IF ok
             THEN /\ fetches' = [fetches EXCEPT ![k].phase = "json",
                                                ![k].timer = ClearTimeout(@)]
                  /\ UNCHANGED script
             ELSE /\ fetches' = [fetches EXCEPT ![k].phase = "done",
                                                ![k].timer = ClearTimeout(@)]
                  /\ script' = [script EXCEPT !.debugInfo = "HTTP Status",
                                              !.statusMessage = ErrHttp,
                                              !.isLoading = FALSE]
        /\ UNCHANGED <<posts, vars, appVars, dateVars>>

\* fetch rejected by the network: catch and finally; the timer stays set
NetworkError ==
    \E k \in 1..Len(fetches) :
        /\ fetches[k].phase = "fetch"
        /\ fetches' = [fetches EXCEPT ![k].phase = "done"]
        /\ script' = [script EXCEPT !.statusMessage = ErrNetwork, !.isLoading = FALSE]
        /\ UNCHANGED <<posts, vars, appVars, dateVars>>

\* response.json() resolved: the rest of the try block, then finally
BodyRead ==
    \E k \in 1..Len(fetches), data \in Bodies :
        /\ fetches[k].phase = "json"
        /\ fetches' = [fetches EXCEPT ![k].phase = "done"]
        /\ script' =
               IF data.array
               THEN [script EXCEPT !.slots = SortByStart(data.val), !.isLoading = FALSE]
               ELSE [script EXCEPT !.statusMessage = ErrFormat, !.isLoading = FALSE]
        /\ UNCHANGED <<posts, vars, appVars, dateVars>>

\* the timer of call k fires: controller.abort().  A call still awaiting its
\* fetch or its body is rejected with an AbortError (catch, then finally);
\* on a call that is over the abort does nothing.
TimerFires ==
    \E k \in 1..Len(fetches) :
        /\ fetches[k].timer = "armed"
        /\ IF fetches[k].phase \in {"fetch", "json"}
             THEN /\ fetches' = [fetches EXCEPT ![k].phase = "aborted", ![k].timer = "fired"]
                  /\ script' = [script EXCEPT !.statusMessage = TimeoutMessage,
                                              !.isLoading = FALSE]
             ELSE /\ fetches' = [fetches EXCEPT ![k].timer = "fired"]
                  /\ UNCHANGED script
        /\ UNCHANGED <<posts, vars, appVars, dateVars>>

\* a click on a slot of the list (the list is rendered in the main view
\* while isLoading is false): setSelectedSlot(slot)
ChooseSlot ==
    \E i \in 1..Len(script.slots) :
        /\ script.gasUrl # NoUrl
        /\ ~script.isLoading
        /\ script.selectedSlot # script.slots[i].id
        /\ script' = [script EXCEPT !.selectedSlot = script.slots[i].id]
        /\ UNCHANGED <<fetches, posts, vars, appVars, dateVars>>

\* the form is on the page: main view, and no success screen in its place
FormShown(st) == st.gasUrl # NoUrl /\ st.bookingStatus # "success"

\* a submit button that is never disabled while a submission is pending
SubmitEnabledWhilePending(st) == st.selectedSlot # NoSlot

\* the inputs and the submit button are not disabled
SubmitEnabled(st) == st.selectedSlot # NoSlot /\ st.bookingStatus # "submitting"

\* the requester types a name and an e-mail address
FillForm ==
    /\ FormShown(script)
    /\ SubmitEnabled(script)
    /\ ~script.formFilled
    /\ script' = [script EXCEPT !.formFilled = TRUE]
    /\ UNCHANGED <<fetches, posts, vars, appVars, dateVars>>

\* the form is submitted: handleBookingSubmit up to its await
ScriptBookingSubmit ==
    /\ FormShown(script)
    /\ SubmitEnabled(script)
    /\ script.selectedSlot # NoSlot /\ script.formFilled
    /\ Len(posts) < MaxPosts
    /\ script' = [script EXCEPT !.bookingStatus = "submitting"]
    /\ posts' = Append(posts, [phase |-> "post", eventId |-> script.selectedSlot])
    /\ UNCHANGED <<fetches, vars, appVars, dateVars>>

\* the POST resolved with a response: a response that is not ok is thrown
\* to the catch block, an ok one is read with response.json()
PostAnswered ==
    \E k \in 1..Len(posts), ok \in BOOLEAN :
        /\ posts[k].phase = "post"
        /\ IF ok
             THEN /\ posts' = [posts EXCEPT ![k].phase = "json"]
                  /\ UNCHANGED script
             ELSE /\ posts' = [posts EXCEPT ![k].phase = "done"]
                  /\ script' = [script EXCEPT !.bookingStatus = "error",
                                              !.statusMessage = ErrSend]
        /\ UNCHANGED <<fetches, vars, appVars, dateVars>>

\* the POST rejected by the network: the catch block
PostFailed ==
    \E k \in 1..Len(posts) :
        /\ posts[k].phase = "post"
        /\ posts' = [posts EXCEPT ![k].phase = "done"]
        /\ script' = [script EXCEPT !.bookingStatus = "error",
                                    !.statusMessage = ErrNetwork]
        /\ UNCHANGED <<fetches, vars, appVars, dateVars>>

\* a timer callback that only returns to the form
BackToForm(st) == [st EXCEPT !.bookingStatus = "idle"]

\* the state updates of the callback of setTimeout(..., 5000), up to its
\* call of fetchAvailableSlots
AfterSuccess(st) ==
    [st EXCEPT !.selectedSlot = NoSlot, !.formFilled = FALSE, !.bookingStatus = "idle"]

\* response.json() of the POST settled: result.success arms the timer,
\* anything else is thrown to the catch block
PostBodyRead ==
    \E k \in 1..Len(posts), result \in {MsgBooked, ErrRefused, ErrBody} :
        /\ posts[k].phase = "json"
        /\ IF result = MsgBooked
             THEN /\ posts' = [posts EXCEPT ![k].phase = "timer"]
                  /\ script' = [script EXCEPT !.bookingStatus = "success",
                                              !.statusMessage = MsgBooked]
             ELSE /\ posts' = [posts EXCEPT ![k].phase = "done"]
                  /\ script' = [script EXCEPT !.bookingStatus = "error",
                                              !.statusMessage = result]
        /\ UNCHANGED <<fetches, vars, appVars, dateVars>>

\* the timer of an accepted booking fires: the selection and the form are
\* cleared, the status returns to idle, and the fetchAvailableSlots of the
\* render that submitted (its gasUrl starts with https) is called
SuccessTimerFires ==
    \E k \in 1..Len(posts) :
        /\ posts[k].phase = "timer"
        /\ posts' = [posts EXCEPT ![k].phase = "done"]
        /\ script' = [AfterSuccess(script) EXCEPT !.isLoading = TRUE,
                                                  !.statusMessage = "",
                                                  !.debugInfo = "null"]
        /\ fetches' = Append(fetches, [phase |-> "fetch", timer |-> "armed"])
        /\ UNCHANGED <<vars, appVars, dateVars>>

NextScript ==
    \/ FetchAvailableSlots
    \/ ManualUrlSubmit
    \/ ManualUrlRefused
    \/ ResetUrl
    \/ ResponseArrives
    \/ NetworkError
    \/ BodyRead
    \/ TimerFires
    \/ ChooseSlot
    \/ FillForm
    \/ ScriptBookingSubmit
    \/ PostAnswered
    \/ PostFailed
    \/ PostBodyRead
    \/ SuccessTimerFires

SpecScript == InitScript /\ [][NextScript]_<<vars, appVars, scriptVars, dateVars>>

\* the same runs, in which every timer that setTimeout armed after an
\* accepted booking fires
SpecScriptTimers ==
    /\ InitScript
    /\ [][NextScript]_<<vars, appVars, scriptVars, dateVars>>
    /\ WF_<<vars, appVars, scriptVars, dateVars>>(SuccessTimerFires)

\* ---------------------------------------------------------------------
\* One browser of the cloud variant that moves between the days of the
\* calendar (src/App.jsx): every events.list call carries the selectedDate
\* and the cloudBookings of the render that sent it, several calls can be
\* unanswered at once, and the answers arrive in any order.
\* ---------------------------------------------------------------------

\* the days the viewer can pick
Dates == 1..MaxDates

\* a day is empty or holds one template slot, with the day as its id
DayCalendars(d) == {<<>>, <<TimedEvent(d, Str(<<SLOT_KEYWORD>>), Undefined, 0, 1)>>}

InitDates ==
    /\ days \in {f \in [Dates -> UNION {DayCalendars(d) : d \in Dates}] :
                    \A d \in Dates : f[d] \in DayCalendars(d)}
    /\ records = <<>>
    /\ viewer = [user |-> FALSE, isGapiLoaded |-> FALSE, apiError |-> NoError,
                 isLoading |-> FALSE, selectedDate |-> 1,
                 cloudBookings |-> <<>>, availableSlots |-> <<>>]
    /\ lists = <<>>
    /\ calendar = [def |-> FALSE, val |-> <<>>]
    /\ store = <<>>
    /\ isGapiLoaded = FALSE
    /\ apiError = NoError
    /\ isLoading = FALSE
    /\ cloudBookings = <<>>
    /\ availableSlots = <<>>
    /\ requests = <<>>
    /\ allEvents = <<>>
    /\ templateSlots = <<>>
    /\ busyEvents = <<>>
    /\ usedBookings = <<>>
    /\ lastResponse = "none"
    /\ AppIdle
    /\ ScriptIdle

\* fetchGcalSlots of a render, up to its await: the call keeps the
\* selectedDate (timeMin, timeMax) and the cloudBookings of that render
FetchDay(st, ls, loaded, error, date, bookings) ==
    IF loaded /\ error = NoError
    THEN [st |-> [st EXCEPT !.isLoading = TRUE, !.apiError = NoError],
          ls |-> Append(ls, [date |-> date, bookings |-> bookings])]
    ELSE [st |-> st, ls |-> ls]

\* the effect on [isGapiLoaded, selectedDate, cloudBookings, apiError]
DayEffect(st, ls) ==
    FetchDay(st, ls, st.isGapiLoaded, st.apiError, st.selectedDate, st.cloudBookings)

\* the browser has room for the call the effect would send
DayEffectInBounds(st, ls) ==
    (st.isGapiLoaded /\ st.apiError = NoError) => Len(ls) < MaxOverlap

\* onAuthStateChanged delivers the user: the store listener is attached
ViewerSignedIn ==
    /\ ~viewer.user
    /\ viewer' = [viewer EXCEPT !.user = TRUE]
    /\ UNCHANGED <<days, records, lists, vars, appVars, scriptVars>>

\* gapi.client.init resolved: setIsGapiLoaded(true), then the effect
ViewerGapiLoaded ==
    LET after == DayEffect([viewer EXCEPT !.isGapiLoaded = TRUE], lists)
    IN  /\ ~viewer.isGapiLoaded
        /\ viewer' = after.st
        /\ lists' = after.ls
        /\ UNCHANGED <<days, records, vars, appVars, scriptVars>>

\* the store listener delivers the collection: setCloudBookings, then the
\* effect
ViewerOnSnapshot ==
    LET st == [viewer EXCEPT !.cloudBookings = records]
        after == DayEffect(st, lists)
    IN  /\ viewer.user
        /\ viewer.cloudBookings # records
        /\ DayEffectInBounds(st, lists)
        /\ viewer' = after.st
        /\ lists' = after.ls
        /\ UNCHANGED <<days, records, vars, appVars, scriptVars>>

\* a click on a day of the calendar: setSelectedDate(new Date(...)), then
\* the effect
PickDate ==
    \E d \in Dates :
        LET st == [viewer EXCEPT !.selectedDate = d]
            after == DayEffect(st, lists)
        IN  /\ DayEffectInBounds(st, lists)
            /\ viewer' = after.st
            /\ lists' = after.ls
            /\ UNCHANGED <<days, records, vars, appVars, scriptVars>>

\* the list fetchGcalSlots computes from the events of a day and bookings
ResolveDay(events, bookings) ==
    LET templates == FilterTemplateSlots(events)
    IN  MapSlots(templates, FilterBusyEvents(events, templates), bookings)

\* events.list of some unanswered call resolved: the rest of that
\* fetchGcalSlots runs with the values of its own render
ListResolved ==
    \E k \in 1..Len(lists) :
        /\ viewer' = [viewer EXCEPT
                          !.availableSlots =
                              ResolveDay(days[lists[k].date], lists[k].bookings),
                          !.isLoading = FALSE]
        /\ lists' = Without(lists, k)
        /\ UNCHANGED <<days, records, vars, appVars, scriptVars>>

\* events.list of some unanswered call rejected
ListRejected ==
    \E k \in 1..Len(lists), status \in {401, 500} :
        /\ viewer' = [viewer EXCEPT
                          !.apiError = IF status = 401 THEN ErrNoPermission ELSE ErrFetchFailed,
                          !.isLoading = FALSE]
        /\ lists' = Without(lists, k)
        /\ UNCHANGED <<days, records, vars, appVars, scriptVars>>

\* the store accepts the submission some browser made for a template slot
RecordAccepted ==
    \E d \in Dates : \E i \in 1..Len(days[d]) :
        /\ IsTemplateSlot(days[d][i])
        /\ Len(records) < MaxDocs
        /\ records' = AddDoc(records, Len(records) + 1,
                             [name |-> NameOf(1), slotId |-> days[d][i].id,
                              rawStart |-> days[d][i].start.dateTime,
                              rawEnd |-> days[d][i].end.dateTime,
                              status |-> "pending"])
        /\ UNCHANGED <<days, viewer, lists, vars, appVars, scriptVars>>

NextDates ==
    \/ ViewerSignedIn
    \/ ViewerGapiLoaded
    \/ ViewerOnSnapshot
    \/ PickDate
    \/ ListResolved
    \/ ListRejected
    \/ RecordAccepted

SpecDates == InitDates /\ [][NextDates]_<<vars, appVars, scriptVars, dateVars>>

\* the runs in which every events.list call is answered with events: the
\* store listener delivers a snapshot that differs from what the browser
\* holds (strong fairness: in the code no unanswered call holds a snapshot
\* back, only the bound of the runs does), and the API answers every call;
\* date clicks and submissions are up to the users
NextDatesAnswered ==
    \/ ViewerSignedIn
    \/ ViewerGapiLoaded
    \/ ViewerOnSnapshot
    \/ PickDate
    \/ ListResolved
    \/ RecordAccepted

SpecDatesAnswered ==
    /\ InitDates
    /\ [][NextDatesAnswered]_<<vars, appVars, scriptVars, dateVars>>
    /\ SF_<<vars, appVars, scriptVars, dateVars>>(ViewerOnSnapshot)
    /\ WF_<<vars, appVars, scriptVars, dateVars>>(ListResolved)

\* ------------------------------------------------------------------- claims
\* vocabulary of the properties, stated on the values themselves
Items(seq) == {seq[i] : i \in 1..Len(seq)}

Tokens(s) == {s.val[i] : i \in 1..Len(s.val)}

Count(seq, x) == Cardinality({i \in 1..Len(seq) : seq[i] = x})

TitleHasKeyword(ev) == SLOT_KEYWORD \in Tokens(ev.summary)

DescriptionHasKeyword(ev) == SLOT_KEYWORD \in Tokens(ev.description)

DescriptionConfirmed(ev) == CONFIRMED_MARKER \in Tokens(ev.description)

\* t.start < b.end and t.end > b.start
StrictOverlap(t, b) == EventStart(t) < EventEnd(b) /\ EventEnd(t) > EventStart(b)

BusyOverlap(t) == \E b \in Items(busyEvents) : StrictOverlap(t, b)

LiveBooking(t) ==
    \E r \in Items(usedBookings) : r.slotId = t.id /\ r.status # "deleted"

\* the slots of the displayed list that carry the id of event t
SlotsOf(t) == {sl \in Items(availableSlots) : sl.id = t.id}

ReportedBooked(t) == SlotsOf(t) # {} /\ \A sl \in SlotsOf(t) : sl.isBooked

ReportedUnbooked(t) == SlotsOf(t) # {} /\ \A sl \in SlotsOf(t) : ~sl.isBooked

\* C1: every template slot of a resolution is reported, and it is reported
\* booked if and only if a busy event strictly overlaps it, or a booking
\* record that is not deleted references it, or its description carries the
\* confirmed marker.
C1_BookedIff ==
    \A t \in Items(templateSlots) :
        /\ SlotsOf(t) # {}
        /\ \A sl \in SlotsOf(t) :
               sl.isBooked <=> (BusyOverlap(t) \/ LiveBooking(t) \/ DescriptionConfirmed(t))

\* C1 witness: a resolution over a non-empty booking list that reports one
\* slot booked and another one unbooked
C1_Witness ==
    /\ lastResponse = "resolved"
    /\ usedBookings # <<>>
    /\ \E a \in Items(availableSlots), b \in Items(availableSlots) :
           a.isBooked /\ ~b.isBooked

\* C2 as stated: an event is a template slot exactly when its title or its
\* description contains the keyword, and a busy event otherwise.
C2_Original ==
    \A ev \in Items(allEvents) :
        /\ ev \in Items(templateSlots) <=> (TitleHasKeyword(ev) \/ DescriptionHasKeyword(ev))
        /\ ev \in Items(busyEvents) <=> ~(TitleHasKeyword(ev) \/ DescriptionHasKeyword(ev))

\* C2 amended: an event is a template slot exactly when its title contains the
\* keyword, and a busy event otherwise; an event that carries the keyword in
\* its description only is a busy event and books every template slot it
\* strictly overlaps.
C2_TitleOnly ==
    /\ \A ev \in Items(allEvents) :
           /\ ev \in Items(templateSlots) <=> TitleHasKeyword(ev)
           /\ ev \in Items(busyEvents) <=> ~TitleHasKeyword(ev)
    /\ \A ev \in Items(allEvents), t \in Items(templateSlots) :
           (DescriptionHasKeyword(ev) /\ ~TitleHasKeyword(ev) /\ StrictOverlap(t, ev))
               => ReportedBooked(t)

\* C2 witness: an event with the keyword in its description only is the one
\* reason why a template slot is reported booked
C2_Witness ==
    /\ lastResponse = "resolved"
    /\ \E ev \in Items(busyEvents), t \in Items(templateSlots) :
           /\ DescriptionHasKeyword(ev) /\ ~TitleHasKeyword(ev)
           /\ StrictOverlap(t, ev)
           /\ ~LiveBooking(t) /\ ~DescriptionConfirmed(t)
           /\ ReportedBooked(t)

\* C3: the two filters split the fetched events: every event is in exactly
\* one of templateSlots and busyEvents, once, and the lengths add up.
C3_Partition ==
    /\ Len(templateSlots) + Len(busyEvents) = Len(allEvents)
    /\ \A ev \in Items(allEvents) :
           Count(templateSlots, ev) + Count(busyEvents, ev) = 1
    /\ Items(templateSlots) \cup Items(busyEvents) = Items(allEvents)

\* C3 witness: a resolution whose events include one without a title next to
\* a template slot
C3_Witness ==
    /\ lastResponse = "resolved"
    /\ templateSlots # <<>>
    /\ \E ev \in Items(allEvents) : ~ev.summary.def /\ ev \in Items(busyEvents)

\* C4: a template slot that a busy event of the same resolution overlaps
\* (b.start < t.end and b.end > t.start) is reported booked, whatever the
\* bookings and wherever the two events stand in the list.
C4_OverlapBooks ==
    \A t \in Items(templateSlots), b \in Items(busyEvents) :
        (EventStart(b) < EventEnd(t) /\ EventEnd(b) > EventStart(t))
            => ReportedBooked(t)

\* C4 witness: a busy event listed before the template slot overlaps it, no
\* live booking and no marker being there to book the slot
C4_Witness ==
    /\ lastResponse = "resolved"
    /\ \E t \in Items(templateSlots), b \in Items(busyEvents) :
           /\ Count(allEvents, b) = 1 /\ b.id < t.id
           /\ EventStart(b) < EventEnd(t) /\ EventEnd(b) > EventStart(t)
           /\ ~LiveBooking(t) /\ ~DescriptionConfirmed(t)
           /\ ReportedBooked(t)

\* a busy event that ends when the slot starts, or starts when it ends
Touches(t, b) == EventEnd(b) = EventStart(t) \/ EventStart(b) = EventEnd(t)

\* C5: a template slot whose busy events all merely touch it at an endpoint,
\* that no live booking references and whose description is not marked
\* confirmed, is reported unbooked.
C5_TouchingIsFree ==
    \A t \in Items(templateSlots) :
        ( /\ \E b \in Items(busyEvents) : Touches(t, b)
          /\ \A b \in Items(busyEvents) : Touches(t, b)
          /\ ~LiveBooking(t)
          /\ ~DescriptionConfirmed(t) )
            => ReportedUnbooked(t)

\* C5 witness: a busy event of positive width ends exactly when a template
\* slot of positive width starts, and the slot is reported unbooked
C5_Witness ==
    /\ lastResponse = "resolved"
    /\ \E t \in Items(templateSlots), b \in Items(busyEvents) :
           /\ EventStart(b) < EventEnd(b)
           /\ EventEnd(b) = EventStart(t)
           /\ EventStart(t) < EventEnd(t)
           /\ ReportedUnbooked(t)

\* C6: a template slot that no busy event overlaps, that no live booking
\* references and whose description is not marked confirmed is reported
\* unbooked.
C6_FreeWhenNoSignal ==
    \A t \in Items(templateSlots) :
        ( /\ \A b \in Items(busyEvents) :
                 EventEnd(b) <= EventStart(t) \/ EventStart(b) >= EventEnd(t)
          /\ ~LiveBooking(t)
          /\ ~DescriptionConfirmed(t) )
            => ReportedUnbooked(t)

\* C6 witness: a slot of positive width with a busy event away from it and a
\* deleted booking record on it is reported unbooked
C6_Witness ==
    /\ lastResponse = "resolved"
    /\ \E t \in Items(templateSlots), b \in Items(busyEvents), r \in Items(usedBookings) :
           /\ EventStart(t) < EventEnd(t)
           /\ EventEnd(b) <= EventStart(t) \/ EventStart(b) >= EventEnd(t)
           /\ r.slotId = t.id /\ r.status = "deleted"
           /\ ReportedUnbooked(t)

\* C7: a template slot referenced by a pending or a synced booking record is
\* reported booked; a slot that only deleted records reference, that no busy
\* event overlaps and that is not marked confirmed, is reported unbooked.
C7_BookingStatus ==
    \A t \in Items(templateSlots) :
        /\ (\E r \in Items(usedBookings) :
                r.slotId = t.id /\ r.status \in {"pending", "synced"})
               => ReportedBooked(t)
        /\ ( /\ \E r \in Items(usedBookings) : r.slotId = t.id
             /\ \A r \in Items(usedBookings) : r.slotId = t.id => r.status = "deleted"
             /\ ~BusyOverlap(t)
             /\ ~DescriptionConfirmed(t) )
               => ReportedUnbooked(t)

\* C7 witness: a pending booking record is the one reason why a slot is
\* reported booked
C7_Witness ==
    /\ lastResponse = "resolved"
    /\ \E t \in Items(templateSlots), r \in Items(usedBookings) :
           /\ r.slotId = t.id /\ r.status = "pending"
           /\ ~BusyOverlap(t) /\ ~DescriptionConfirmed(t)
           /\ ReportedBooked(t)

ZeroWidth(t) == EventStart(t) = EventEnd(t)

\* C8 as stated: a template slot of no width never conflicts with a busy
\* event, so without a live booking and without the marker it is reported
\* unbooked.
C8_Original ==
    \A t \in Items(templateSlots) :
        (ZeroWidth(t) /\ ~LiveBooking(t) /\ ~DescriptionConfirmed(t))
            => ReportedUnbooked(t)

\* C8 amended: a template slot of no width conflicts with exactly the busy
\* events whose interval strictly contains its instant; a busy event that
\* starts or ends at that instant does not conflict with it.
C8_ZeroWidthConflict ==
    \A t \in Items(templateSlots) :
        (ZeroWidth(t) /\ ~LiveBooking(t) /\ ~DescriptionConfirmed(t))
            => /\ SlotsOf(t) # {}
               /\ \A sl \in SlotsOf(t) :
                      sl.isBooked <=>
                          \E b \in Items(busyEvents) :
                              EventStart(b) < EventStart(t) /\ EventStart(t) < EventEnd(b)

\* C8 witness: a slot of no width inside a timed busy event is reported
\* booked for that reason alone
C8_Witness ==
    /\ lastResponse = "resolved"
    /\ \E t \in Items(templateSlots), b \in Items(busyEvents) :
           /\ ZeroWidth(t) /\ ~LiveBooking(t) /\ ~DescriptionConfirmed(t)
           /\ b.start.dateTime.def
           /\ EventStart(b) < EventStart(t) /\ EventStart(t) < EventEnd(b)
           /\ ReportedBooked(t)

\* position of the event with the given id in the fetched list
PositionOf(id) == CHOOSE k \in 1..Len(allEvents) : allEvents[k].id = id

\* C9: the slot list has one slot per template slot (the events whose title
\* carries the keyword), under the same id, in the order in which the
\* template slots stand in the fetched list, and no slot for a busy event.
C9_OnePerTemplateInOrder ==
    /\ \A ev \in Items(allEvents) :
           Cardinality({j \in 1..Len(availableSlots) : availableSlots[j].id = ev.id})
               = IF TitleHasKeyword(ev) THEN 1 ELSE 0
    /\ \A sl \in Items(availableSlots) : \E ev \in Items(allEvents) : ev.id = sl.id
    /\ \A i \in 1..Len(availableSlots), j \in 1..Len(availableSlots) :
           i < j => PositionOf(availableSlots[i].id) < PositionOf(availableSlots[j].id)

\* C9 witness: a resolution that returns two slots
C9_Witness ==
    /\ lastResponse = "resolved"
    /\ Len(availableSlots) = 2
    /\ availableSlots[1].id # availableSlots[2].id

\* the events the calendar answers with, none when the items field is missing
CalendarEvents == IF calendar.def THEN Items(calendar.val) ELSE {}

\* C10: when the answer of events.list holds no template slot, its item list
\* being empty or missing included, the call ends with an empty slot list,
\* leaves apiError as it was and clears the loading flag.
C10_EmptyIsNoError ==
    [][ ( /\ Len(requests') < Len(requests)
          /\ lastResponse' = "resolved"
          /\ \A ev \in CalendarEvents : ~TitleHasKeyword(ev) )
            => ( /\ availableSlots' = <<>>
                 /\ apiError' = apiError
                 /\ isLoading' = FALSE ) ]_vars

\* C10 witness: a call answered without an items field has ended with an
\* empty slot list and no error
C10_Witness ==
    /\ lastResponse = "resolved"
    /\ ~calendar.def
    /\ requests = <<>>
    /\ availableSlots = <<>>
    /\ apiError = NoError
    /\ ~isLoading

\* C12: when an event of the answer has a start or an end that is no
\* timestamp, the resolution ends with an error and the event takes no part
\* in a resolved list.
C12_MalformedSurfaces ==
    (lastResponse = "resolved" /\ \E ev \in CalendarEvents : ~WellFormed(ev))
        => /\ apiError # NoError
           /\ \A ev \in Items(allEvents) : WellFormed(ev)

IsAllDay(ev) == ~ev.start.dateTime.def /\ ev.start.date.def

\* the interval from midnight of start.date to midnight of end.date
MidnightOverlap(t, b) ==
    LET tS == IF IsAllDay(t) THEN t.start.date.d * DayLen ELSE EventStart(t)
        tE == IF IsAllDay(t) THEN t.end.date.d * DayLen ELSE EventEnd(t)
        bS == IF IsAllDay(b) THEN b.start.date.d * DayLen ELSE EventStart(b)
        bE == IF IsAllDay(b) THEN b.end.date.d * DayLen ELSE EventEnd(b)
    IN  tS < bE /\ tE > bS

\* C13: an all-day event of a resolution, template or busy, has the interval
\* that runs from midnight of its start date to midnight of its end date;
\* the resolution completes: every template slot is reported, and it is
\* reported booked when a busy event overlaps it on those intervals.
C13_AllDayInterval ==
    /\ \A ev \in Items(allEvents) :
           IsAllDay(ev) =>
               /\ EventStart(ev) = ev.start.date.d * DayLen
               /\ EventEnd(ev) = ev.end.date.d * DayLen
               /\ EventStart(ev) < EventEnd(ev)
    /\ \A t \in Items(templateSlots) :
           (IsAllDay(t) \/ \E b \in Items(busyEvents) : IsAllDay(b)) =>
               /\ SlotsOf(t) # {}
               /\ (\E b \in Items(busyEvents) : MidnightOverlap(t, b)) => ReportedBooked(t)
               /\ ReportedBooked(t) =>
                      \/ \E b \in Items(busyEvents) : MidnightOverlap(t, b)
                      \/ LiveBooking(t)
                      \/ DescriptionConfirmed(t)

\* C13 witness: a resolution over an all-day template slot and an all-day
\* busy event, and one over a timed template slot under an all-day busy event
C13_Witness ==
    /\ lastResponse = "resolved"
    /\ \E t \in Items(templateSlots), b \in Items(busyEvents) :
           IsAllDay(b) /\ ReportedBooked(t)

\* C19: from a state in which the Google API client is not loaded or an
\* error is set, no step issues a calendar request, raises the loading flag
\* or clears the error.
C19_GuardedFetch ==
    [][(~isGapiLoaded \/ apiError # NoError) =>
           /\ Len(requests') <= Len(requests)
           /\ isLoading' => isLoading
           /\ apiError # NoError => apiError' # NoError]_vars

\* C19 witness: the API client is loaded, a request was rejected and set the
\* error; the effect has run again on the change of apiError and no request
\* is in flight
C19_Witness ==
    /\ isGapiLoaded
    /\ lastResponse = "rejected"
    /\ apiError # NoError
    /\ requests = <<>>
    /\ ~isLoading

\* C20: when the timer of a call fires before any response, the call is
\* aborted, the status message becomes the timeout message, the slot list is
\* unchanged and isLoading ends false; the arrival of a response clears the
\* timer of its call, and a call whose response has arrived is never aborted.
C20_TimeoutAborts ==
    [][\A k \in 1..Len(fetches) :
           /\ (fetches[k].timer = "armed" /\ fetches'[k].timer = "fired"
                   /\ fetches[k].phase = "fetch")
                  => /\ fetches'[k].phase = "aborted"
                     /\ script'.statusMessage = TimeoutMessage
                     /\ script'.slots = script.slots
                     /\ script'.isLoading = FALSE
           /\ (fetches[k].phase = "fetch" /\ fetches'[k].phase = "json")
                  => fetches'[k].timer = "cleared"
           /\ fetches[k].phase = "json"
                  => fetches'[k].phase \in {"json", "done"}]_scriptVars

\* C20 witness: one call was aborted by its timer while slots of an earlier
\* answer are displayed, and another call has read its body after clearing
\* its timer
C20_Witness ==
    /\ script.slots # <<>>
    /\ script.statusMessage = TimeoutMessage
    /\ ~script.isLoading
    /\ \E k \in 1..Len(fetches) : fetches[k].phase = "aborted"
    /\ \E k \in 1..Len(fetches) : fetches[k].phase = "done" /\ fetches[k].timer = "cleared"

\* ------------------------------------------------- claims on the cloud app
\* a step in which call k of fetchGcalSlots of browser c came back
Answered(c, k) == calls'[c].requests = Without(calls[c].requests, k)

\* C11: a resolution over the events and the bookings of the first
\* resolution of the run yields the slot list of that first resolution,
\* whatever was resolved, booked, synced or removed in between.
C11_SameInputsSameSlots ==
    [][\A c \in Clients : \A k \in 1..Len(calls[c].requests) :
           (/\ Answered(c, k)
            /\ firstPass # <<>>
            /\ gcal = firstPass[1].events
            /\ calls[c].requests[k].bookings = firstPass[1].bookings)
               => \/ client'[c].availableSlots = firstPass[1].slots
                  \/ /\ client'[c].apiError \in {ErrNoPermission, ErrFetchFailed}
                     /\ client'[c].availableSlots = client[c].availableSlots]_appVars

\* C11 witness: the first resolution saw no booking; a booking was then
\* made, delivered and removed, and the list on display was resolved again
\* from the inputs of the first resolution
C11_Witness ==
    /\ firstPass # <<>>
    /\ created >= 1
    /\ docs = <<>>
    /\ gcal = firstPass[1].events
    /\ firstPass[1].bookings = <<>>
    /\ \E c \in Clients :
           /\ client[c].cloudBookings = <<>>
           /\ calls[c].requests = <<>>
           /\ client[c].apiError = NoError
           /\ client[c].availableSlots = firstPass[1].slots
           /\ client[c].availableSlots # <<>>

\* C14: a slot becomes the selected slot only from the list on display and
\* only while it is displayed unbooked; a record that handleBookingSubmit
\* adds to the store has status pending and the id of the slot its requester
\* had selected that way.
C14_SubmitsShownUnbooked ==
    [][/\ \A c \in Clients :
              client'[c].selectedSlot # client[c].selectedSlot =>
                  /\ ~client[c].isLoading
                  /\ ~client'[c].selectedSlot.isBooked
                  /\ \E i \in 1..Len(client[c].availableSlots) :
                         client[c].availableSlots[i] = client'[c].selectedSlot
       /\ created' > created =>
              LET d == docs'[Len(docs')]
              IN  /\ d.status = "pending"
                  /\ \E c \in Clients :
                         /\ d.name = NameOf(c)
                         /\ client[c].selectedSlot # NullSlot
                         /\ ~client[c].selectedSlot.isBooked
                         /\ d.slotId = client[c].selectedSlot.id]_appVars

\* C14 witness: a requester's submission was accepted, and another browser
\* displays that slot as booked
C14_Witness ==
    \E c, o \in Clients :
        /\ c # o
        /\ client[c].bookingStatus = "success"
        /\ \E i \in 1..Len(docs) : docs[i].name = NameOf(c) /\ docs[i].status = "pending"
        /\ ~client[o].isLoading
        /\ \E i \in 1..Len(client[o].availableSlots) : client[o].availableSlots[i].isBooked

\* C15: every submission the store acknowledges adds a pending record for
\* the submitted slot and keeps the records already there, whether or not a
\* live record references that slot: two live records on one slot are
\* reachable.
C15_WriteNeverRejected ==
    [][\A c \in Clients :
           (/\ calls[c].submits # <<>>
            /\ calls'[c].submits = <<>>
            /\ client'[c].bookingStatus = "success")
               => /\ Len(docs') = Len(docs) + 1
                  /\ SubSeq(docs', 1, Len(docs)) = docs
                  /\ docs'[Len(docs')].slotId = Head(calls[c].submits).slotId
                  /\ docs'[Len(docs')].status = "pending"]_appVars

\* C15 witness: two requesters, both still on the empty snapshot and both
\* displaying the slot as unbooked, have had their submissions accepted: two
\* live records reference the slot
C15_Witness ==
    /\ \A c \in Clients :
           /\ client[c].cloudBookings = <<>>
           /\ client[c].bookingStatus = "success"
           /\ client[c].availableSlots # <<>>
           /\ \A i \in 1..Len(client[c].availableSlots) : ~client[c].availableSlots[i].isBooked
    /\ \E i, j \in 1..Len(docs) :
           /\ docs[i].name # docs[j].name
           /\ docs[i].slotId = docs[j].slotId
           /\ docs[i].status # "deleted" /\ docs[j].status # "deleted"

\* C16: a record that is in the store before and after a step keeps its
\* slotId, its requester and its times; its status is unchanged, or goes
\* from pending to synced in a step that ends a syncToGoogle call made for
\* that record.
C16_OnlySyncOrRemoval ==
    [][\A i \in 1..Len(docs), j \in 1..Len(docs') :
           docs[i].id = docs'[j].id =>
               /\ docs'[j].name = docs[i].name
               /\ docs'[j].slotId = docs[i].slotId
               /\ docs'[j].rawStart = docs[i].rawStart
               /\ docs'[j].rawEnd = docs[i].rawEnd
               /\ \/ docs'[j].status = docs[i].status
                  \/ /\ docs[i].status = "pending"
                     /\ docs'[j].status = "synced"
                     /\ \E c \in Clients :
                            /\ calls[c].syncs # <<>>
                            /\ Head(calls[c].syncs).booking.id = docs[i].id
                            /\ Head(calls[c].syncs).awaits = "update"
                            /\ calls'[c].syncs = <<>>]_appVars

\* C16 witness: of two records one was removed and the other one synced, by
\* two Sync Now clicks
C16_Witness ==
    /\ created = 2
    /\ Len(docs) = 1
    /\ docs[1].status = "synced"
    /\ Len(gcal) = 3

\* a calendar event inserted for record d
InsertedFor(d) ==
    \E ev \in Items(gcal) :
        /\ ev.summary = Str(<<"confirmed", d.name>>)
        /\ ev.start.dateTime = d.rawStart
        /\ ev.end.dateTime = d.rawEnd

\* C17: after every step each synced record has a calendar event inserted
\* with its start and end; a step in which events.insert fails leaves the
\* store as it is and sets the error of that browser.
C17_SyncedAfterInsert ==
    [][/\ \A i \in 1..Len(docs') :
              docs'[i].status = "synced" => \E ev \in Items(gcal') :
                  /\ ev.summary = Str(<<"confirmed", docs'[i].name>>)
                  /\ ev.start.dateTime = docs'[i].rawStart
                  /\ ev.end.dateTime = docs'[i].rawEnd
       /\ \A c \in Clients :
              (/\ calls[c].syncs # <<>>
               /\ Head(calls[c].syncs).awaits = "insert"
               /\ calls'[c].syncs = <<>>)
                  => docs' = docs /\ gcal' = gcal /\ client'[c].apiError = ErrSync]_appVars

\* C17 witness: one record is synced and has its event; the insert for the
\* other one failed, it is still pending and the error is set
C17_Witness ==
    /\ Len(docs) = 2
    /\ docs[1].status = "synced" /\ InsertedFor(docs[1])
    /\ docs[2].status = "pending"
    /\ Len(gcal) = 2
    /\ \E c \in Clients : client[c].apiError = ErrSync /\ calls[c].syncs = <<>>

\* the events of the calendar by id and interval
Intervals(events) ==
    {[id |-> ev.id, start |-> EventStart(ev), end |-> EventEnd(ev)] : ev \in Items(events)}

\* C18 as stated: no step changes the set of event ids and intervals.
C18_Original == [][Intervals(gcal') = Intervals(gcal)]_appVars

\* C18: a step leaves every event of the calendar as it is, description
\* included; the only change is the insertion of one event, made for the
\* record of a syncToGoogle call awaiting events.insert, with the start and
\* the end of that record.
C18_OnlyInsertions ==
    [][/\ \A ev \in Items(gcal) : ev \in Items(gcal')
       /\ Len(gcal') <= Len(gcal) + 1
       /\ \A ev \in Items(gcal') \ Items(gcal) :
              \E c \in Clients :
                  /\ calls[c].syncs # <<>>
                  /\ Head(calls[c].syncs).awaits = "insert"
                  /\ ev.start.dateTime = Head(calls[c].syncs).booking.rawStart
                  /\ ev.end.dateTime = Head(calls[c].syncs).booking.rawEnd
                  /\ ~IsTemplateSlot(ev)]_appVars

\* C18 witness: a booking was synced: the calendar holds the template slot,
\* its description still undefined, and the inserted event
C18_Witness ==
    /\ \E i \in 1..Len(docs) : docs[i].status = "synced"
    /\ Len(gcal) = 2
    /\ \E ev \in Items(gcal) : IsTemplateSlot(ev) /\ ev.description = Undefined

\* the events of the calendar that syncToGoogle inserted
InsertedEvents == {i \in 1..Len(gcal) : ~IsTemplateSlot(gcal[i])}

\* C23: the calendar never holds more inserted events than records were
\* created: no record leads to a second inserted event.
C23_OneEventPerRecord == Cardinality(InsertedEvents) <= created

\* the template slots of the shared calendar that last longer than an instant
WideSlots == {ev \in Items(gcal) : IsTemplateSlot(ev) /\ EventStart(ev) < EventEnd(ev)}

\* the list on display holds the slot and reports it as booked
DisplaysBooked(slots, id) ==
    /\ \E i \in 1..Len(slots) : slots[i].id = id
    /\ \A i \in 1..Len(slots) : slots[i].id = id => slots[i].isBooked

DisplaysUnbooked(slots, id) ==
    /\ \E i \in 1..Len(slots) : slots[i].id = id
    /\ \A i \in 1..Len(slots) : slots[i].id = id => ~slots[i].isBooked

\* C22: in the step in which handleBookingSubmit sends a record for the
\* selected slot to the store, the list on display of that browser holds the
\* slot and reports it as unbooked.
C22_SubmitsStillUnbooked ==
    [][\A c \in Clients :
           Len(calls'[c].submits) > Len(calls[c].submits)
               => DisplaysUnbooked(client[c].availableSlots, client[c].selectedSlot.id)]_appVars

\* C26: after every step, a browser whose modal is open on the Accepted
\* screen has a record of its own in the store for the slot it has
\* selected; and a step that opens the modal leaves it on the reservation
\* form, not on the Accepted screen.
C26_AcceptedOnlyAfterStore ==
    [][\A c \in Clients :
           /\ (client'[c].isBookingModalOpen /\ client'[c].bookingStatus = "success")
                  => \E i \in 1..Len(docs') :
                         /\ docs'[i].name = NameOf(c)
                         /\ docs'[i].slotId = client'[c].selectedSlot.id
           /\ (~client[c].isBookingModalOpen /\ client'[c].isBookingModalOpen)
                  => client'[c].bookingStatus # "success"]_appVars

\* C21: when the API client is loaded, no events.list call is unanswered
\* and no error is set, the list on display is the resolution of the events
\* of the selected day against the bookings the browser holds.
C21_DisplayIsCurrent ==
    (viewer.isGapiLoaded /\ lists = <<>> /\ viewer.apiError = NoError)
        => viewer.availableSlots = ResolveDay(days[viewer.selectedDate], viewer.cloudBookings)

\* the store holds a record for the template slot of day d
StoredFor(d) == \E i \in 1..Len(records) : records[i].slotId = d

\* the browser is connected, has no error set and shows day d
Viewing(d) ==
    /\ viewer.user /\ viewer.isGapiLoaded
    /\ viewer.apiError = NoError
    /\ viewer.selectedDate = d

\* C25: when the store holds a record for the slot of a day and a connected
\* browser without error shows that day, then at some later time the
\* browser displays the slot as booked (or it has left that day).
C25_EventuallyBooked ==
    \A d \in Dates :
        (StoredFor(d) /\ Viewing(d)) ~> (DisplaysBooked(viewer.availableSlots, d) \/ ~Viewing(d))

\* the submissions of the script variant that are not answered yet
Pending == {k \in 1..Len(posts) : posts[k].phase \in {"post", "json"}}

\* C27: after every step at most one submission is unanswered, and a step
\* taken while a submission is unanswered sends no request.
C27_OneSubmissionInFlight ==
    [][/\ Cardinality(Pending') <= 1
       /\ Pending # {} => Len(posts') = Len(posts)]_scriptVars

\* C27 witness: a first submission was answered with a failure, the
\* requester has submitted again and that submission is unanswered
C27_Witness ==
    /\ Len(posts) = 2
    /\ posts[1].phase = "done"
    /\ Pending = {2}
    /\ script.bookingStatus = "submitting"

\* C28: the step in which the timer of an accepted booking fires clears the
\* selected slot, sets the status to idle and sends one new slot request; a
\* step that ends a submission with a refusal or a transport error sets the
\* status to error, keeps the selection and sends no slot request; an
\* accepted booking sets the status to success, and from the status success
\* the page comes to the status idle with no slot selected.
C28_AfterAnswer ==
    /\ [][\A k \in 1..Len(posts) :
              /\ (posts[k].phase = "timer" /\ posts'[k].phase = "done")
                     => /\ script'.selectedSlot = NoSlot
                        /\ script'.bookingStatus = "idle"
                        /\ Len(fetches') = Len(fetches) + 1
                        /\ fetches'[Len(fetches')].phase = "fetch"
              /\ (posts[k].phase \in {"post", "json"} /\ posts'[k].phase = "done")
                     => /\ script'.bookingStatus = "error"
                        /\ script'.selectedSlot = script.selectedSlot
                        /\ fetches' = fetches
              /\ (posts[k].phase = "json" /\ posts'[k].phase = "timer")
                     => script'.bookingStatus = "success"]_scriptVars
    /\ (script.bookingStatus = "success")
           ~> (script.bookingStatus = "idle" /\ script.selectedSlot = NoSlot)

\* C28 witness: two submissions are over and the timer of the accepted
\* one has fired: no slot is selected, the status is idle and the slot
\* request of the timer is on its way
C28_Witness ==
    /\ Len(posts) = 2
    /\ posts[1].phase = "done" /\ posts[2].phase = "done"
    /\ script.bookingStatus = "idle"
    /\ script.selectedSlot = NoSlot
    /\ Len(fetches) > 1
    /\ fetches[Len(fetches)].phase = "fetch"
====
